---- MODULE Spec2Model ----
(***************************************************************************)
(* Voice interaction orchestrator of the AI Coach mobile app: the App      *)
(* component (mode, turn status, history, locked context, TTS arbitration, *)
(* OCR stabilizer, proactive hints) and the VoiceButton component (speech  *)
(* session manager and audio feedback guard).                              *)
(*                                                                         *)
(* Text is a sequence of one-character strings, so that toLowerCase, trim, *)
(* includes, startsWith, slice and length are computed as the code does.   *)
(* Time is in milliseconds.                                                *)
(***************************************************************************)
EXTENDS Integers, Sequences, FiniteSets, TLC

\* ------------------------------------------------------------------ text

\* String.prototype.toLowerCase, for the letters the inputs use
LowerChar(c) ==
  CASE c = "H" -> "h" [] c = "J" -> "j" [] c = "W" -> "w" [] c = "I" -> "i"
    [] c = "N" -> "n" [] c = "Y" -> "y"
    [] OTHER -> c

ToLower(s) == [i \in 1..Len(s) |-> LowerChar(s[i])]

IsSpace(c) == c \in {" ", "\n", "\t"}

RECURSIVE TrimLeft(_)
TrimLeft(s) == IF s # <<>> /\ IsSpace(Head(s)) THEN TrimLeft(Tail(s)) ELSE s

RECURSIVE TrimRight(_)
TrimRight(s) ==
  IF s # <<>> /\ IsSpace(s[Len(s)]) THEN TrimRight(SubSeq(s, 1, Len(s) - 1)) ELSE s

\* String.prototype.trim
Trim(s) == TrimRight(TrimLeft(s))

\* String.prototype.startsWith
StartsWith(s, p) == Len(p) <= Len(s) /\ SubSeq(s, 1, Len(p)) = p

\* String.prototype.includes
Includes(s, p) ==
  \E i \in 0..(Len(s) - Len(p)) : SubSeq(s, i + 1, i + Len(p)) = p

\* String.prototype.slice(0, n)
SliceTo(s, n) == SubSeq(s, 1, IF Len(s) < n THEN Len(s) ELSE n)

\* Array.prototype.slice(-n)
SliceLast(s, n) == IF Len(s) <= n THEN s ELSE SubSeq(s, Len(s) - n + 1, Len(s))

\* ------------------------------------------------------------------ phrases

LOCK_PHRASES ==
  { <<"y", "e", "s">>, <<"y", "e", "a", "h">>, <<"y", "e", "p">>, <<"y", "u", "p">>,
    <<"c", "o", "r", "r", "e", "c", "t">>, <<"c", "o", "n", "f", "i", "r", "m">>,
    <<"t", "h", "a", "t", "'", "s", " ", "i", "t">>,
    <<"l", "o", "c", "k", " ", "i", "t">>, <<"l", "o", "c", "k">>,
    <<"r", "i", "g", "h", "t">>, <<"e", "x", "a", "c", "t", "l", "y">>,
    <<"t", "h", "a", "t", "'", "s", " ", "t", "h", "e", " ", "o", "n", "e">> }

isLockPhrase(text) ==
  LET lower == Trim(ToLower(text))
  IN  Len(lower) < 30 /\
      \E p \in LOCK_PHRASES : lower = p \/ StartsWith(lower, p \o <<" ">>)

isNoPhrase(text) ==
  LET lower == Trim(ToLower(text))
  IN  \/ lower = <<"n", "o">>
      \/ lower = <<"n", "o", "p", "e">>
      \/ lower = <<"n", "a", "h">>
      \/ lower = <<"s", "k", "i", "p">>
      \/ lower = <<"n", "o", "t", " ", "t", "h", "a", "t">>
      \/ lower = <<"s", "o", "m", "e", "t", "h", "i", "n", "g", " ", "e", "l", "s", "e">>
      \/ lower = <<"n", "e", "x", "t">>
      \/ StartsWith(lower, <<"n", "o", " ">>)
      \/ StartsWith(lower, <<"n", "o", "t", " ", "t", "h", "a", "t">>)

isWakeWord(text) ==
  LET lower == Trim(ToLower(text))
  IN  \/ Includes(lower, <<"j", "a", "r", "v", "i", "s">>)
      \/ Includes(lower, <<"t", "r", "a", "v", "i", "s">>)
      \/ lower = <<"h", "e", "y">>
      \/ lower = <<"a", "c", "t", "i", "v", "a", "t", "e">>
      \/ lower = <<"w", "a", "k", "e", " ", "u", "p">>

isWhatDoYouSee(text) ==
  LET lower == ToLower(text)
  IN  \/ Includes(lower, <<"w", "h", "a", "t", " ", "d", "o", " ", "y", "o", "u", " ", "s", "e", "e">>)
      \/ Includes(lower, <<"w", "h", "a", "t", " ", "c", "a", "n", " ", "y", "o", "u", " ", "s", "e", "e">>)
      \/ Includes(lower, <<"w", "h", "a", "t", "'", "s", " ", "o", "n", " ", "t", "h", "e", " ", "s", "c", "r", "e", "e", "n">>)
      \/ Includes(lower, <<"w", "h", "a", "t", " ", "i", "s", " ", "o", "n", " ", "s", "c", "r", "e", "e", "n">>)
      \/ Includes(lower, <<"d", "e", "s", "c", "r", "i", "b", "e", " ", "t", "h", "e", " ", "s", "c", "r", "e", "e", "n">>)
      \/ Includes(lower, <<"w", "h", "a", "t", " ", "q", "u", "e", "s", "t", "i", "o", "n">>)
      \/ Includes(lower, <<"l", "o", "o", "k", " ", "a", "t", " ", "t", "h", "e", " ", "s", "c", "r", "e", "e", "n">>)
      \/ Includes(lower, <<"c", "h", "e", "c", "k", " ", "t", "h", "e", " ", "s", "c", "r", "e", "e", "n">>)

\* handleVoiceResult's unlock test (lower === 'unlock' || 'next question' || 'next')
isUnlockPhrase(text) ==
  LET lower == Trim(ToLower(text))
  IN  \/ lower = <<"u", "n", "l", "o", "c", "k">>
      \/ lower = <<"n", "e", "x", "t", " ", "q", "u", "e", "s", "t", "i", "o", "n">>
      \/ lower = <<"n", "e", "x", "t">>

\* ------------------------------------------------------------------ bounds

\* pending 100 ms speak timers (speakText calls whose Tts.speak is not yet issued)
MaxSpeakTimers == 2
\* inference requests in flight
MaxInflight == 2
\* startVoice invocations suspended at an await
MaxStartVoice == 2
\* undelivered TTS events
MaxTtsEvents == 2
MaxExchanges == 7
\* the text stabilizer's clock: granularity, and where it stops advancing
StabTickMs == 500
StabMaxTime == 14000
\* the hint watcher's clock: granularity, and where it stops advancing
HintTickMs == 2500
HintMaxTime == 32500

\* ------------------------------------------------------------------ program constants

STABLE_DELAY_MS == 1500
HINT_COOLDOWN_MS == 10000
HINT_MIN_LEN == 20
HINT_KEY_LEN == 50
HISTORY_MAX == 10
RESUME_DELAY_MS == 350
END_RESTART_MS == 400
ERROR5_RESTART_MS == 700
ERROR_RESTART_MS == 350

\* ------------------------------------------------------------------ state

VARIABLES
  \* App (useState / useRef)
  mode, status, responseText, audioUrl, stopAudio, errorMsg, captureNow,
  pendingQuestion, history, lockedContext, ttsPlaying, detectedText,
  isListening, stableTimer, stableText, confirmingText, pendingSpeak,
  wakeWordFired, lastAnalyzedKey, lastAnalyzedTime,
  \* App: callbacks not yet run
  speakTimers,      \* texts of speakText's pending 100 ms timeouts, oldest first
  inflight,         \* inference requests awaiting their final value
  captureTimer,     \* CameraView's pending capture (the question handleCapture will send)
  \* text-to-speech collaborator
  ttsEngine,        \* utterances playing or queued
  ttsEvents,        \* events emitted and not yet delivered to the listeners
  \* VoiceButton
  activeRef, pausedRef, latestResult, restartTimer,
  sv,               \* suspended startVoice invocations, by await point, and
                    \* whether the last one to finish had both attempts rejected
  mountPc,          \* the auto-start effect: "asking" for the microphone, then "done"
  \* speech collaborator: "none" after Voice.destroy, else the session's phase
  session,
  \* clock (Date.now, setTimeout)
  now,
  \* observation: what happened since the current utterance began
  uttWakes, uttMatched,
  \* observation: when the OCR loop last reported, when a hint was last requested
  rawAt, lastHintAt,
  \* observation: the number of exchanges answered so far
  answered,
  \* observation: the content keys of the hints requested so far
  firedKeys,
  \* observation: the restart timeouts pending in the timer queue
  restartTimeouts,
  \* observation: the pending restart timeout was set while another was pending
  restartReplaced,
  \* observation: the stored transcript was recognized while input was paused
  heardPaused

vars ==
  << mode, status, responseText, audioUrl, stopAudio, errorMsg, captureNow,
     pendingQuestion, history, lockedContext, ttsPlaying, detectedText,
     isListening, stableTimer, stableText, confirmingText, pendingSpeak,
     wakeWordFired, lastAnalyzedKey, lastAnalyzedTime,
     speakTimers, inflight, captureTimer, ttsEngine, ttsEvents,
     activeRef, pausedRef, latestResult, restartTimer, sv, mountPc, session, now,
     uttWakes, uttMatched, rawAt, lastHintAt, answered, firedKeys,
     restartTimeouts, restartReplaced, heardPaused >>

\* The state as one value, so that a handler is a function from state to state
\* and a handler calling another is function composition.
Cur ==
  [ mode |-> mode, status |-> status, responseText |-> responseText,
    audioUrl |-> audioUrl, stopAudio |-> stopAudio, errorMsg |-> errorMsg,
    captureNow |-> captureNow, pendingQuestion |-> pendingQuestion,
    history |-> history, lockedContext |-> lockedContext,
    ttsPlaying |-> ttsPlaying, detectedText |-> detectedText,
    isListening |-> isListening, stableTimer |-> stableTimer,
    stableText |-> stableText, confirmingText |-> confirmingText,
    pendingSpeak |-> pendingSpeak, wakeWordFired |-> wakeWordFired,
    lastAnalyzedKey |-> lastAnalyzedKey, lastAnalyzedTime |-> lastAnalyzedTime,
    speakTimers |-> speakTimers, inflight |-> inflight,
    captureTimer |-> captureTimer, ttsEngine |-> ttsEngine,
    ttsEvents |-> ttsEvents, activeRef |-> activeRef, pausedRef |-> pausedRef,
    latestResult |-> latestResult, restartTimer |-> restartTimer, sv |-> sv,
    mountPc |-> mountPc,
    session |-> session, now |-> now,
    uttWakes |-> uttWakes, uttMatched |-> uttMatched,
    rawAt |-> rawAt, lastHintAt |-> lastHintAt, answered |-> answered,
    firedKeys |-> firedKeys, restartTimeouts |-> restartTimeouts,
    restartReplaced |-> restartReplaced, heardPaused |-> heardPaused ]

\* the bounds of the model, as a guard on the state a step produces
Bounded(t) ==
  /\ Len(t.speakTimers) <= MaxSpeakTimers
  /\ Len(t.inflight) <= MaxInflight
  /\ t.sv.d1 + t.sv.c + t.sv.d2 <= MaxStartVoice
  /\ Len(t.ttsEvents) <= MaxTtsEvents
  /\ t.ttsEngine <= MaxSpeakTimers
  /\ t.answered <= MaxExchanges

\* the proactive hint's fixed instruction ('Look at the user's current approach and
\* give ONE specific next step ...'), abbreviated
HINT_QUESTION == <<"n", "e", "x", "t", " ", "s", "t", "e", "p", "?">>

\* the step from in-flight requests before to after dispatched a proactive hint
HintRequested(before, after) ==
  Len(after) > Len(before) /\ after[Len(after)].q = HINT_QUESTION

\* A step takes the program to state t.
Apply(t) ==
  /\ Bounded(t)
  /\ mode' = t.mode /\ status' = t.status /\ responseText' = t.responseText
  /\ audioUrl' = t.audioUrl /\ stopAudio' = t.stopAudio /\ errorMsg' = t.errorMsg
  /\ captureNow' = t.captureNow /\ pendingQuestion' = t.pendingQuestion
  /\ history' = t.history /\ lockedContext' = t.lockedContext
  /\ ttsPlaying' = t.ttsPlaying /\ detectedText' = t.detectedText
  /\ isListening' = t.isListening /\ stableTimer' = t.stableTimer
  /\ stableText' = t.stableText /\ confirmingText' = t.confirmingText
  /\ pendingSpeak' = t.pendingSpeak /\ wakeWordFired' = t.wakeWordFired
  /\ lastAnalyzedKey' = t.lastAnalyzedKey /\ lastAnalyzedTime' = t.lastAnalyzedTime
  /\ speakTimers' = t.speakTimers /\ inflight' = t.inflight
  /\ captureTimer' = t.captureTimer /\ ttsEngine' = t.ttsEngine
  /\ ttsEvents' = t.ttsEvents /\ activeRef' = t.activeRef
  /\ pausedRef' = t.pausedRef /\ latestResult' = t.latestResult
  /\ restartTimer' = t.restartTimer /\ sv' = t.sv /\ session' = t.session
  /\ mountPc' = t.mountPc
  /\ now' = t.now
  /\ uttWakes' = t.uttWakes
  /\ uttMatched' = t.uttMatched
  /\ rawAt' = t.rawAt
  /\ answered' = t.answered
  /\ restartTimeouts' = t.restartTimeouts
  /\ restartReplaced' = t.restartReplaced
  /\ heardPaused' = t.heardPaused
  /\ lastHintAt' = (IF HintRequested(inflight, t.inflight) THEN t.now ELSE t.lastHintAt)
  /\ firedKeys' = (IF HintRequested(inflight, t.inflight)
                    THEN t.firedKeys \cup {t.lastAnalyzedKey} ELSE t.firedKeys)

NoTimer == [set |-> FALSE, text |-> <<>>, due |-> 0]
NoCapture == [set |-> FALSE, q |-> <<>>]
NoText == <<>>
NoMsg == [k |-> "", p |-> <<>>]
Msg(k) == [k |-> k, p |-> <<>>]

Init ==
  /\ mode = "sleeping" /\ status = "idle" /\ responseText = NoMsg
  /\ audioUrl = FALSE /\ stopAudio = FALSE /\ errorMsg = ""
  /\ captureNow = FALSE /\ pendingQuestion = NoText /\ history = <<>>
  /\ lockedContext = NoText /\ ttsPlaying = FALSE /\ detectedText = NoText
  /\ isListening = FALSE /\ stableTimer = NoTimer /\ stableText = NoText
  /\ confirmingText = NoText /\ pendingSpeak = FALSE /\ wakeWordFired = FALSE
  /\ lastAnalyzedKey = NoText /\ lastAnalyzedTime = 0
  /\ speakTimers = <<>> /\ inflight = <<>> /\ captureTimer = NoCapture
  /\ ttsEngine = 0 /\ ttsEvents = <<>>
  /\ activeRef = FALSE /\ pausedRef = FALSE /\ latestResult = NoText
  /\ restartTimer = 0 /\ sv = [d1 |-> 0, c |-> 0, d2 |-> 0, failed |-> FALSE]
  /\ mountPc = "asking" /\ session = "none"
  /\ now = HINT_COOLDOWN_MS
  /\ uttWakes = 0 /\ uttMatched = FALSE /\ rawAt = 0 /\ lastHintAt = 0
  /\ answered = 0 /\ firedKeys = {}
  /\ restartTimeouts = 0 /\ restartReplaced = FALSE /\ heardPaused = FALSE

\* ------------------------------------------------------------------ collaborators

\* Voice.destroy(): the session, if any, is torn down when the call is issued
VoiceDestroy(s) == [s EXCEPT !.session = "none"]

\* the tts-cancel events; the label records whose Tts.stop() caused the event
\* (speakText's, or another caller's), the listener does not see it
CancelBySpeakText == "cancel (speakText)"
TtsCancels == {"cancel", CancelBySpeakText}

\* Tts.stop(): whatever is playing or queued is flushed, one cancel event ev each
TtsStop(s, ev) ==
  IF s.ttsEngine = 0 THEN s
  ELSE [s EXCEPT !.ttsEngine = 0,
                 !.ttsEvents = @ \o [i \in 1..s.ttsEngine |-> ev]]

\* Tts.speak(text): the utterance is queued behind whatever is playing
TtsSpeak(s) == [s EXCEPT !.ttsEngine = @ + 1]

\* ------------------------------------------------------------------ VoiceButton

\* if (restartTimerRef.current) clearTimeout(restartTimerRef.current): a timeout
\* that has fired is not pending, and clearing it does nothing
clearRestartTimer(s) ==
  IF s.restartTimer = 0 THEN s
  ELSE [s EXCEPT !.restartTimer = 0, !.restartTimeouts = @ - 1,
                 !.restartReplaced = FALSE]

\* scheduleRestart setting its timeout without clearing the pending one
scheduleRestart_NoClear(s, delayMs) ==
  [s EXCEPT !.restartTimer = delayMs, !.restartTimeouts = @ + 1,
            !.restartReplaced = s.restartTimer # 0]

scheduleRestart(s, delayMs) ==
  [clearRestartTimer(s) EXCEPT !.restartTimer = delayMs, !.restartTimeouts = @ + 1,
                               !.restartReplaced = s.restartTimer # 0]

\* startVoice up to its first await: the entry check, then Voice.destroy() is issued
startVoice(s) ==
  IF ~s.activeRef \/ s.pausedRef THEN s
  ELSE [VoiceDestroy(s) EXCEPT !.sv.d1 = @ + 1, !.sv.failed = FALSE]

\* startVoice resumed after `await Voice.destroy()` of the try block:
\* Voice.start is issued; ok says whether destroy and start succeed
startVoiceAfterDestroy(s, ok) ==
  IF ok THEN [s EXCEPT !.sv.d1 = @ - 1, !.sv.failed = FALSE, !.session = "ready"]
  ELSE [s EXCEPT !.sv.d1 = @ - 1, !.sv.c = @ + 1]

\* the catch block up to its await: Voice.destroy() is issued again
startVoiceCatch(s) ==
  [VoiceDestroy(s) EXCEPT !.sv.c = @ - 1, !.sv.d2 = @ + 1]

\* the catch block resumed: Voice.start is issued, a second failure is swallowed
startVoiceRetry(s, ok) ==
  IF ok THEN [s EXCEPT !.sv.d2 = @ - 1, !.sv.failed = FALSE, !.session = "ready"]
  ELSE [s EXCEPT !.sv.d2 = @ - 1, !.sv.failed = TRUE]

pauseForTts(s) ==
  VoiceDestroy([clearRestartTimer([s EXCEPT !.pausedRef = TRUE]) EXCEPT
                  !.isListening = FALSE])

resumeAfterTts(s) ==
  LET s1 == [s EXCEPT !.pausedRef = FALSE]
  IN  IF s1.activeRef THEN scheduleRestart(s1, RESUME_DELAY_MS) ELSE s1

\* ------------------------------------------------------------------ App: TTS

\* handleTtsEnd putting the app back to sleep when a reply has been played
handleTtsEnd_Sleeps(s) ==
  resumeAfterTts([s EXCEPT !.ttsPlaying = FALSE, !.mode = "sleeping"])

\* handleTtsEnd clearing ttsPlaying without resuming speech input
handleTtsEnd_NoResume(s) == [s EXCEPT !.ttsPlaying = FALSE]

handleTtsEnd(s) == resumeAfterTts([s EXCEPT !.ttsPlaying = FALSE])

handleTtsCancel(s) ==
  IF s.pendingSpeak THEN s
  ELSE resumeAfterTts([s EXCEPT !.ttsPlaying = FALSE])

\* speakText up to setTimeout: the 100 ms callback is left pending
speakText(s, text) ==
  LET s1 == [s EXCEPT !.ttsPlaying = TRUE]
      s2 == pauseForTts(s1)
      s3 == [s2 EXCEPT !.pendingSpeak = TRUE]
      s4 == TtsStop(s3, CancelBySpeakText)
  IN  [s4 EXCEPT !.speakTimers = Append(@, text)]

\* speakText's 100 ms callback
speakTextTimeout(s) ==
  TtsSpeak([s EXCEPT !.pendingSpeak = FALSE, !.speakTimers = Tail(@)])

handleSpeechStart(s) ==
  IF s.ttsPlaying THEN s
  ELSE [TtsStop(s, "cancel") EXCEPT !.stopAudio = TRUE]

handleListeningChange(s, val) == [s EXCEPT !.isListening = val]

\* ------------------------------------------------------------------ App: inference

Rm(q, i) == SubSeq(q, 1, i - 1) \o SubSeq(q, i + 1, Len(q))

Entry(role, content) == [role |-> role, content |-> content]

\* the append keeping the first ten entries: slice(0, 10)
appendExchange_KeepsOldest(h, question, answer) ==
  SliceTo(h \o << Entry("user", question), Entry("assistant", answer) >>, HISTORY_MAX)

\* the append keeping the last nine entries: slice(-9)
appendExchange_KeepsNine(h, question, answer) ==
  SliceLast(h \o << Entry("user", question), Entry("assistant", answer) >>,
            HISTORY_MAX - 1)

\* setHistory(prev => [...prev, user, assistant].slice(-10))
appendExchange(h, question, answer) ==
  SliceLast(h \o << Entry("user", question), Entry("assistant", answer) >>, HISTORY_MAX)

\* the five resets both request paths begin with
beginTurn(s) ==
  [s EXCEPT !.status = "thinking", !.responseText = NoMsg, !.audioUrl = FALSE,
            !.stopAudio = FALSE, !.errorMsg = ""]

\* handleAskWithText up to `await askWithContextStream(...)`
handleAskWithText(s, question, screenText) ==
  [beginTurn(s) EXCEPT
     !.inflight = Append(@, [kind |-> "ask", q |-> question, ctx |-> screenText])]

\* handleCapture up to `await analyzeFrame(uri, pendingQuestion)`; q is the
\* pendingQuestion of the render whose handleCapture CameraView holds
handleCapture(s, q) ==
  [beginTurn([s EXCEPT !.captureNow = FALSE]) EXCEPT
     !.inflight = Append(@, [kind |-> "capture", q |-> q, ctx |-> NoText])]

\* the onPartial callback handed to askWithContextStream
onStreamPartial(s, partial) ==
  [s EXCEPT !.responseText = [k |-> "answer", p |-> partial], !.status = "idle"]

\* the request resolved: the rest of the try block, then finally
requestResolved(s, i, text, hasAudioUrl) ==
  LET r  == s.inflight[i]
      s1 == [s EXCEPT !.inflight = Rm(@, i),
                      !.history = appendExchange(@, r.q, text),
                      !.responseText = [k |-> "answer", p |-> text],
                      !.audioUrl = hasAudioUrl,
                      !.stopAudio = FALSE,
                      !.status = "idle",
                      !.answered = @ + 1]
      s2 == IF ~hasAudioUrl THEN speakText(s1, [k |-> "answer", p |-> text]) ELSE s1
  IN  [s2 EXCEPT !.pendingQuestion = NoText]

\* an error thrown without a message
Undefined == "<undefined>"

\* the request rejected, recording the question in the history
requestRejected_RecordsQuestion(s, i, message) ==
  [s EXCEPT !.inflight = Rm(@, i),
            !.history = SliceLast(@ \o <<Entry("user", s.inflight[i].q)>>, HISTORY_MAX),
            !.errorMsg = IF message = Undefined THEN "Request failed" ELSE message,
            !.status = "error",
            !.pendingQuestion = NoText]

\* the request rejected: the catch block, then finally
requestRejected(s, i, message) ==
  [s EXCEPT !.inflight = Rm(@, i),
            !.errorMsg = IF message = Undefined THEN "Request failed" ELSE message,
            !.status = "error",
            !.pendingQuestion = NoText]

\* ------------------------------------------------------------------ App: OCR and hints

\* handleTextDetected returning on an empty update before the pending timer is cleared
handleTextDetected_EmptyKeepsTimer(s, text) ==
  IF text = NoText THEN [s EXCEPT !.detectedText = text, !.stableText = NoText]
  ELSE [s EXCEPT !.detectedText = text,
                 !.stableTimer = [set |-> TRUE, text |-> text,
                                  due |-> s.now + STABLE_DELAY_MS]]

handleTextDetected(s, text) ==
  LET s1 == [s EXCEPT !.detectedText = text, !.stableTimer = NoTimer]
  IN  IF text = NoText THEN [s1 EXCEPT !.stableText = NoText]
      ELSE [s1 EXCEPT !.stableTimer =
              [set |-> TRUE, text |-> text, due |-> s.now + STABLE_DELAY_MS]]

\* the debounce timer's callback: setStableText(text)
stableTimeout(s) ==
  [s EXCEPT !.stableText = s.stableTimer.text, !.stableTimer = NoTimer]

\* the context of a hint request: `Interview question: ${locked.slice(0, 300)}`,
\* then `User's current work on screen:` and `${stableText.slice(0, 800)}`
HintContext_StableOnly(locked, stable) ==
  <<"S", ":">> \o SliceTo(stable, 800)

HintContext(locked, stable) ==
  <<"Q", ":">> \o SliceTo(locked, 300) \o <<"\n", "S", ":">> \o SliceTo(stable, 800)

\* the effect on [stableText] without the cooldown test
hintEffect_NoCooldown(s) ==
  LET textKey == SliceTo(Trim(s.stableText), HINT_KEY_LEN)
  IN  IF \/ s.stableText = NoText \/ Len(s.stableText) < HINT_MIN_LEN
         \/ s.lockedContext = NoText
         \/ s.mode # "active"
         \/ s.isListening
         \/ s.status = "thinking"
         \/ textKey = s.lastAnalyzedKey
      THEN s
      ELSE handleAskWithText(
             [s EXCEPT !.lastAnalyzedKey = textKey, !.lastAnalyzedTime = s.now],
             HINT_QUESTION,
             HintContext(s.lockedContext, s.stableText))

\* the effect on [stableText] without the test of isListeningRef
hintEffect_NoListeningTest(s) ==
  LET textKey == SliceTo(Trim(s.stableText), HINT_KEY_LEN)
  IN  IF \/ s.stableText = NoText \/ Len(s.stableText) < HINT_MIN_LEN
         \/ s.lockedContext = NoText
         \/ s.mode # "active"
         \/ s.status = "thinking"
         \/ textKey = s.lastAnalyzedKey
         \/ s.now - s.lastAnalyzedTime < HINT_COOLDOWN_MS
      THEN s
      ELSE handleAskWithText(
             [s EXCEPT !.lastAnalyzedKey = textKey, !.lastAnalyzedTime = s.now],
             HINT_QUESTION,
             HintContext(s.lockedContext, s.stableText))

\* the effect on [stableText]
hintEffect(s) ==
  LET textKey == SliceTo(Trim(s.stableText), HINT_KEY_LEN)
  IN  IF \/ s.stableText = NoText \/ Len(s.stableText) < HINT_MIN_LEN
         \/ s.lockedContext = NoText
         \/ s.mode # "active"
         \/ s.isListening
         \/ s.status = "thinking"
         \/ textKey = s.lastAnalyzedKey
         \/ s.now - s.lastAnalyzedTime < HINT_COOLDOWN_MS
      THEN s
      ELSE handleAskWithText(
             [s EXCEPT !.lastAnalyzedKey = textKey, !.lastAnalyzedTime = s.now],
             HINT_QUESTION,
             HintContext(s.lockedContext, s.stableText))

\* CameraView's effect on [captureNow]: a rising edge arms the capture timer with
\* the onCapture of that render, a falling edge clears it
captureEffect(s, t) ==
  IF ~s.captureNow /\ t.captureNow
  THEN [t EXCEPT !.captureTimer = [set |-> TRUE, q |-> t.pendingQuestion]]
  ELSE IF s.captureNow /\ ~t.captureNow
  THEN [t EXCEPT !.captureTimer = NoCapture]
  ELSE t

\* React commits the state a handler set and runs the effects whose deps changed
render(s, t) ==
  LET t1 == captureEffect(s, t)
  IN  IF t1.stableText # s.stableText THEN hintEffect(t1) ELSE t1

\* ------------------------------------------------------------------ App: dialogue

\* raw.replace(/\s+/g, ' ')
RECURSIVE CollapseSpaces(_)
CollapseSpaces(s) ==
  IF s = <<>> THEN <<>>
  ELSE IF IsSpace(Head(s))
  THEN <<" ">> \o CollapseSpaces(TrimLeft(s))
  ELSE <<Head(s)>> \o CollapseSpaces(Tail(s))

\* describeAndConfirm describing the screen without asking for confirmation
describeAndConfirm_StaysActive(s) ==
  LET raw == s.detectedText
  IN  IF Len(raw) < 15
      THEN speakText([s EXCEPT !.responseText = Msg("cant see")], Msg("cant see"))
      ELSE LET preview == SliceTo(Trim(CollapseSpaces(raw)), 160)
               msg == [k |-> "i can see", p |-> preview]
           IN  speakText([s EXCEPT !.responseText = msg], msg)

\* describeAndConfirm offering any non-empty text for confirmation
describeAndConfirm_AnyText(s) ==
  LET raw == s.detectedText
  IN  IF Len(raw) < 1
      THEN speakText([s EXCEPT !.responseText = Msg("cant see")], Msg("cant see"))
      ELSE LET preview == SliceTo(Trim(CollapseSpaces(raw)), 160)
               msg == [k |-> "i can see", p |-> preview]
           IN  speakText([s EXCEPT !.confirmingText = raw, !.mode = "confirming",
                                   !.responseText = msg], msg)

describeAndConfirm(s) ==
  LET raw == s.detectedText
  IN  IF Len(raw) < 15
      THEN speakText([s EXCEPT !.responseText = Msg("cant see")], Msg("cant see"))
      ELSE LET preview == SliceTo(Trim(CollapseSpaces(raw)), 160)
               msg == [k |-> "i can see", p |-> preview]
           IN  speakText([s EXCEPT !.confirmingText = raw, !.mode = "confirming",
                                   !.responseText = msg], msg)

\* wake with the greeting displayed but never handed to speakText
wake_NoGreeting(s) ==
  [s EXCEPT !.mode = "active", !.history = <<>>, !.responseText = Msg("greeting"),
            !.uttWakes = @ + 1]

\* the wake transition both wake paths perform
wake(s) ==
  speakText([s EXCEPT !.mode = "active", !.history = <<>>,
                      !.responseText = Msg("greeting"),
                      !.uttWakes = @ + 1], Msg("greeting"))

\* handlePartialResult with the one-shot guard's test inverted
handlePartialResult_GuardInverted(s, text) ==
  IF s.mode # "sleeping" THEN s
  ELSE IF ~s.wakeWordFired THEN s
  ELSE IF ~isWakeWord(text) THEN s
  ELSE [s EXCEPT !.wakeWordFired = TRUE]

handlePartialResult(s, text) ==
  IF s.mode # "sleeping" THEN s
  ELSE IF s.wakeWordFired THEN s
  ELSE IF ~isWakeWord(text) THEN s
  ELSE wake([s EXCEPT !.wakeWordFired = TRUE])

\* the confirming branch locking the live text instead of the pending text
voiceResultConfirming_LocksLiveText(s, question) ==
  IF isLockPhrase(question)
  THEN speakText([s EXCEPT !.confirmingText = NoText, !.mode = "active",
                           !.lockedContext = s.detectedText,
                           !.responseText = Msg("locked")], Msg("locked"))
  ELSE IF isNoPhrase(question)
  THEN speakText([s EXCEPT !.confirmingText = NoText, !.mode = "active",
                           !.responseText = Msg("ok navigate")], Msg("ok navigate"))
  ELSE LET ctx == IF s.confirmingText # NoText THEN s.confirmingText ELSE s.detectedText
           s1  == [s EXCEPT !.confirmingText = NoText, !.mode = "active",
                            !.pendingQuestion = question]
       IN  IF Len(ctx) > 5 THEN handleAskWithText(s1, question, ctx) ELSE s1

\* the confirming branch in which "no" also releases the locked context
voiceResultConfirming_NoUnlocks(s, question) ==
  IF isLockPhrase(question)
  THEN speakText([s EXCEPT !.confirmingText = NoText, !.mode = "active",
                           !.lockedContext = s.confirmingText,
                           !.responseText = Msg("locked")], Msg("locked"))
  ELSE IF isNoPhrase(question)
  THEN speakText([s EXCEPT !.confirmingText = NoText, !.mode = "active",
                           !.lockedContext = NoText,
                           !.responseText = Msg("ok navigate")], Msg("ok navigate"))
  ELSE LET ctx == IF s.confirmingText # NoText THEN s.confirmingText ELSE s.detectedText
           s1  == [s EXCEPT !.confirmingText = NoText, !.mode = "active",
                            !.pendingQuestion = question]
       IN  IF Len(ctx) > 5 THEN handleAskWithText(s1, question, ctx) ELSE s1

\* the confirming branch in which "no" keeps the pending text
voiceResultConfirming_NoKeepsPending(s, question) ==
  IF isLockPhrase(question)
  THEN speakText([s EXCEPT !.confirmingText = NoText, !.mode = "active",
                           !.lockedContext = s.confirmingText,
                           !.responseText = Msg("locked")], Msg("locked"))
  ELSE IF isNoPhrase(question)
  THEN speakText([s EXCEPT !.mode = "active",
                           !.responseText = Msg("ok navigate")], Msg("ok navigate"))
  ELSE LET ctx == IF s.confirmingText # NoText THEN s.confirmingText ELSE s.detectedText
           s1  == [s EXCEPT !.confirmingText = NoText, !.mode = "active",
                            !.pendingQuestion = question]
       IN  IF Len(ctx) > 5 THEN handleAskWithText(s1, question, ctx) ELSE s1

\* handleVoiceResult in mode confirming, after the wake test
voiceResultConfirming(s, question) ==
  IF isLockPhrase(question)
  THEN speakText([s EXCEPT !.confirmingText = NoText, !.mode = "active",
                           !.lockedContext = s.confirmingText,
                           !.responseText = Msg("locked")], Msg("locked"))
  ELSE IF isNoPhrase(question)
  THEN speakText([s EXCEPT !.confirmingText = NoText, !.mode = "active",
                           !.responseText = Msg("ok navigate")], Msg("ok navigate"))
  ELSE LET ctx == IF s.confirmingText # NoText THEN s.confirmingText ELSE s.detectedText
           s1  == [s EXCEPT !.confirmingText = NoText, !.mode = "active",
                            !.pendingQuestion = question]
       IN  IF Len(ctx) > 5 THEN handleAskWithText(s1, question, ctx) ELSE s1

\* the active branch preferring the live text to the locked context
voiceResultActive_LiveFirst(s, question) ==
  IF isWhatDoYouSee(question) THEN describeAndConfirm(s)
  ELSE IF isUnlockPhrase(question)
  THEN speakText([s EXCEPT !.lockedContext = NoText, !.confirmingText = NoText,
                           !.mode = "active", !.responseText = Msg("unlocked")],
                 Msg("unlocked"))
  ELSE IF isLockPhrase(question) /\ s.lockedContext = NoText /\ Len(s.detectedText) > 10
  THEN speakText([s EXCEPT !.lockedContext = s.detectedText,
                           !.responseText = Msg("got it")], Msg("got it"))
  ELSE LET context == IF s.detectedText # NoText THEN s.detectedText ELSE s.lockedContext
       IN  IF Len(context) > 5
           THEN handleAskWithText([s EXCEPT !.pendingQuestion = question], question, context)
           ELSE [s EXCEPT !.pendingQuestion = question, !.captureNow = TRUE]

\* the active branch accepting any non-empty context (length > 0)
voiceResultActive_AnyContext(s, question) ==
  IF isWhatDoYouSee(question) THEN describeAndConfirm(s)
  ELSE IF isUnlockPhrase(question)
  THEN speakText([s EXCEPT !.lockedContext = NoText, !.confirmingText = NoText,
                           !.mode = "active", !.responseText = Msg("unlocked")],
                 Msg("unlocked"))
  ELSE IF isLockPhrase(question) /\ s.lockedContext = NoText /\ Len(s.detectedText) > 10
  THEN speakText([s EXCEPT !.lockedContext = s.detectedText,
                           !.responseText = Msg("got it")], Msg("got it"))
  ELSE LET context == IF s.lockedContext # NoText THEN s.lockedContext ELSE s.detectedText
       IN  IF Len(context) > 0
           THEN handleAskWithText([s EXCEPT !.pendingQuestion = question], question, context)
           ELSE [s EXCEPT !.pendingQuestion = question, !.captureNow = TRUE]

\* the active branch answering an unlock phrase without releasing the lock
voiceResultActive_UnlockKeepsLock(s, question) ==
  IF isWhatDoYouSee(question) THEN describeAndConfirm(s)
  ELSE IF isUnlockPhrase(question)
  THEN speakText([s EXCEPT !.confirmingText = NoText,
                           !.mode = "active", !.responseText = Msg("unlocked")],
                 Msg("unlocked"))
  ELSE IF isLockPhrase(question) /\ s.lockedContext = NoText /\ Len(s.detectedText) > 10
  THEN speakText([s EXCEPT !.lockedContext = s.detectedText,
                           !.responseText = Msg("got it")], Msg("got it"))
  ELSE LET context == IF s.lockedContext # NoText THEN s.lockedContext ELSE s.detectedText
       IN  IF Len(context) > 5
           THEN handleAskWithText([s EXCEPT !.pendingQuestion = question], question, context)
           ELSE [s EXCEPT !.pendingQuestion = question, !.captureNow = TRUE]

\* the active branch in which an affirmation replaces a locked context
voiceResultActive_LockReplaces(s, question) ==
  IF isWhatDoYouSee(question) THEN describeAndConfirm(s)
  ELSE IF isUnlockPhrase(question)
  THEN speakText([s EXCEPT !.lockedContext = NoText, !.confirmingText = NoText,
                           !.mode = "active", !.responseText = Msg("unlocked")],
                 Msg("unlocked"))
  ELSE IF isLockPhrase(question) /\ Len(s.detectedText) > 10
  THEN speakText([s EXCEPT !.lockedContext = s.detectedText,
                           !.responseText = Msg("got it")], Msg("got it"))
  ELSE LET context == IF s.lockedContext # NoText THEN s.lockedContext ELSE s.detectedText
       IN  IF Len(context) > 5
           THEN handleAskWithText([s EXCEPT !.pendingQuestion = question], question, context)
           ELSE [s EXCEPT !.pendingQuestion = question, !.captureNow = TRUE]

\* handleVoiceResult in mode active, after the wake test
voiceResultActive(s, question) ==
  IF isWhatDoYouSee(question) THEN describeAndConfirm(s)
  ELSE IF isUnlockPhrase(question)
  THEN speakText([s EXCEPT !.lockedContext = NoText, !.confirmingText = NoText,
                           !.mode = "active", !.responseText = Msg("unlocked")],
                 Msg("unlocked"))
  ELSE IF isLockPhrase(question) /\ s.lockedContext = NoText /\ Len(s.detectedText) > 10
  THEN speakText([s EXCEPT !.lockedContext = s.detectedText,
                           !.responseText = Msg("got it")], Msg("got it"))
  ELSE LET context == IF s.lockedContext # NoText THEN s.lockedContext ELSE s.detectedText
       IN  IF Len(context) > 5
           THEN handleAskWithText([s EXCEPT !.pendingQuestion = question], question, context)
           ELSE [s EXCEPT !.pendingQuestion = question, !.captureNow = TRUE]

\* handleVoiceResult leaving every wake to the partial handler
handleVoiceResult_NoFinalWake(s, question) ==
  LET s1 == [s EXCEPT !.stopAudio = FALSE, !.wakeWordFired = FALSE]
  IN  IF isWakeWord(question) THEN s1
      ELSE IF s1.mode = "sleeping" THEN s1
      ELSE IF s1.mode = "confirming" THEN voiceResultConfirming(s1, question)
      ELSE voiceResultActive(s1, question)

\* handleVoiceResult greeting again on a wake phrase heard while awake
handleVoiceResult_WakeAlways(s, question) ==
  LET s1 == [s EXCEPT !.stopAudio = FALSE, !.wakeWordFired = FALSE]
  IN  IF isWakeWord(question) THEN wake(s1)
      ELSE IF s1.mode = "sleeping" THEN s1
      ELSE IF s1.mode = "confirming" THEN voiceResultConfirming(s1, question)
      ELSE voiceResultActive(s1, question)

\* handleVoiceResult without the return while sleeping
handleVoiceResult_NoSleepTest(s, question) ==
  LET s1 == [s EXCEPT !.stopAudio = FALSE, !.wakeWordFired = FALSE]
  IN  IF isWakeWord(question)
      THEN IF s1.mode = "sleeping" THEN wake(s1) ELSE s1
      ELSE IF s1.mode = "confirming" THEN voiceResultConfirming(s1, question)
      ELSE voiceResultActive(s1, question)

handleVoiceResult(s, question) ==
  LET s1 == [s EXCEPT !.stopAudio = FALSE, !.wakeWordFired = FALSE]
  IN  IF isWakeWord(question)
      THEN IF s1.mode = "sleeping" THEN wake(s1) ELSE s1
      ELSE IF s1.mode = "sleeping" THEN s1
      ELSE IF s1.mode = "confirming" THEN voiceResultConfirming(s1, question)
      ELSE voiceResultActive(s1, question)

\* the Unlock control of the locked bar
unlockPress(s) == [s EXCEPT !.lockedContext = NoText, !.confirmingText = NoText]

\* ------------------------------------------------------------------ steps: VoiceButton

\* the auto-start effect, resumed with the permission answer
MountPermission(ok) ==
  /\ mountPc = "asking"
  /\ LET s1 == [Cur EXCEPT !.mountPc = "done"]
     IN  Apply(IF ok THEN startVoice([s1 EXCEPT !.activeRef = TRUE]) ELSE s1)

\* handlePress (the permission answer ok is used only when toggling on)
HandlePress(ok) ==
  /\ mountPc = "done"
  /\ ~ttsPlaying
  /\ Apply(IF activeRef
           THEN VoiceDestroy(clearRestartTimer([Cur EXCEPT !.activeRef = FALSE]))
           ELSE IF ok THEN startVoice([Cur EXCEPT !.activeRef = TRUE]) ELSE Cur)

\* the restart timer's callback not calling startVoice
RestartTimerFire_Idle ==
  /\ restartTimer # 0
  /\ Apply([Cur EXCEPT !.restartTimer = 0, !.restartTimeouts = @ - 1,
                       !.restartReplaced = FALSE])

\* the restart timer's callback
RestartTimerFire ==
  /\ restartTimer # 0
  /\ LET s1 == [Cur EXCEPT !.restartTimer = 0, !.restartTimeouts = @ - 1,
                           !.restartReplaced = FALSE]
     IN  Apply(IF s1.activeRef /\ ~s1.pausedRef THEN startVoice(s1) ELSE s1)

StartVoiceAfterDestroy(ok) ==
  /\ sv.d1 > 0
  /\ Apply(startVoiceAfterDestroy(Cur, ok))

StartVoiceCatch ==
  /\ sv.c > 0
  /\ Apply(startVoiceCatch(Cur))

StartVoiceRetry(ok) ==
  /\ sv.d2 > 0
  /\ Apply(startVoiceRetry(Cur, ok))

\* Voice.onSpeechStart: a new utterance begins
OnSpeechStart ==
  /\ session = "ready"
  /\ LET s1 == [Cur EXCEPT !.session = "hearing", !.uttWakes = 0, !.uttMatched = FALSE]
     IN  Apply(IF s1.pausedRef THEN s1
               ELSE render(s1, handleSpeechStart(handleListeningChange(s1, TRUE))))

\* Voice.onSpeechPartialResults
OnSpeechPartialResults(text) ==
  /\ session = "hearing"
  /\ LET s1 == [Cur EXCEPT !.latestResult = text,
                           !.heardPaused = text # NoText /\ pausedRef,
                           !.uttMatched = @ \/ (mode = "sleeping" /\ isWakeWord(text))]
     IN  Apply(IF text # NoText /\ ~s1.pausedRef
               THEN render(s1, handlePartialResult(s1, text)) ELSE s1)

\* Voice.onSpeechResults
OnSpeechResults(text) ==
  /\ session = "hearing"
  /\ Apply([Cur EXCEPT !.session = "results",
                       !.heardPaused = IF text # NoText THEN pausedRef ELSE @,
                       !.latestResult = IF text # NoText THEN text ELSE @])

\* Voice.onSpeechEnd
onSpeechEnd(s) ==
  IF s.pausedRef THEN s
  ELSE LET s1 == handleListeningChange(s, FALSE)
           result == Trim(s1.latestResult)
           s2 == [s1 EXCEPT !.latestResult = NoText, !.heardPaused = FALSE]
           s3 == IF result # NoText THEN handleVoiceResult(s2, result) ELSE s2
       IN  scheduleRestart(s3, END_RESTART_MS)

OnSpeechEnd ==
  /\ session = "results"
  /\ LET s1 == [Cur EXCEPT !.session = "ended",
                  !.uttMatched = @ \/ (mode = "sleeping"
                                        /\ isWakeWord(Trim(latestResult)))]
     IN  Apply(render(s1, onSpeechEnd(s1)))

\* Voice.onSpeechError
onSpeechError(s, code5) ==
  IF s.pausedRef THEN s
  ELSE scheduleRestart([handleListeningChange(s, FALSE) EXCEPT !.latestResult = NoText,
                                                               !.heardPaused = FALSE],
                       IF code5 THEN ERROR5_RESTART_MS ELSE ERROR_RESTART_MS)

OnSpeechError(code5) ==
  /\ session \in {"ready", "hearing"}
  /\ Apply(onSpeechError([Cur EXCEPT !.session = "ended"], code5))

\* ------------------------------------------------------------------ steps: TTS

SpeakTimerFire ==
  /\ speakTimers # <<>>
  /\ Apply(speakTextTimeout(Cur))

\* the utterance being played ends, normally or with an error
TtsUtteranceEnds(ev) ==
  /\ ttsEngine > 0
  /\ Apply([Cur EXCEPT !.ttsEngine = @ - 1, !.ttsEvents = Append(@, ev)])

\* the next TTS event is delivered, with no listener registered for tts-error
TtsEventDelivered_ErrorDropped ==
  /\ ttsEvents # <<>>
  /\ LET s1 == [Cur EXCEPT !.ttsEvents = Tail(@)]
     IN  Apply(IF Head(ttsEvents) \in TtsCancels THEN handleTtsCancel(s1)
               ELSE IF Head(ttsEvents) = "error" THEN s1
               ELSE handleTtsEnd(s1))

\* the next TTS event reaches its listener
TtsEventDelivered ==
  /\ ttsEvents # <<>>
  /\ LET s1 == [Cur EXCEPT !.ttsEvents = Tail(@)]
     IN  Apply(IF Head(ttsEvents) \in TtsCancels THEN handleTtsCancel(s1)
               ELSE handleTtsEnd(s1))

\* ------------------------------------------------------------------ steps: App

\* the Ask button: enabled unless thinking or the trimmed text is empty
TypedQuestion(text) ==
  /\ status # "thinking"
  /\ Trim(text) # NoText
  /\ Apply(render(Cur, handleVoiceResult(Cur, Trim(text))))

\* the Tap to Activate button of the sleeping bar
TapActivate ==
  /\ lockedContext = NoText /\ mode = "sleeping"
  /\ Apply(render(Cur, handleVoiceResult(Cur,
             <<"h", "e", "y", " ", "j", "a", "r", "v", "i", "s">>)))

\* the Unlock button of the locked bar
UnlockPress ==
  /\ lockedContext # NoText
  /\ Apply(unlockPress(Cur))

\* CameraView's OCR loop reports the text it read
\* (observe: the time of the report is recorded in rawAt)
TextDetected(text, observe) ==
  Apply([render(Cur, handleTextDetected(Cur, text)) EXCEPT
           !.rawAt = IF observe THEN now ELSE @])

\* the debounce timer fires, not before it is due
StableTimerFire ==
  /\ stableTimer.set /\ now >= stableTimer.due
  /\ Apply(render(Cur, stableTimeout(Cur)))

\* CameraView's capture timer fires; ok says whether the camera took the photo
CaptureTimerFire(ok) ==
  /\ captureTimer.set
  /\ LET s1 == [Cur EXCEPT !.captureTimer = NoCapture]
     IN  Apply(IF ok THEN render(s1, handleCapture(s1, captureTimer.q)) ELSE s1)

\* a chunk of the incremental reply stream arrives
StreamPartial(i, partial) ==
  /\ i \in 1..Len(inflight) /\ inflight[i].kind = "ask"
  /\ Apply(onStreamPartial(Cur, partial))

RequestResolved(i, text, hasAudioUrl) ==
  /\ i \in 1..Len(inflight)
  /\ Apply(render(Cur, requestResolved(Cur, i, text, hasAudioUrl)))

RequestRejected(i, message) ==
  /\ i \in 1..Len(inflight)
  /\ Apply(requestRejected(Cur, i, message))

\* time passes: d ms, up to the time limit
Tick(d, limit) ==
  /\ now < limit
  /\ Apply([Cur EXCEPT !.now = @ + d])

\* ------------------------------------------------------------------ inputs

HeyJarvis == <<"H", "e", "y", " ", "J", "a", "r", "v", "i", "s">>
ExplainThis == <<"e", "x", "p", "l", "a", "i", "n", " ", "t", "h", "i", "s">>
AnswerText == <<"o", "k">>

\* ------------------------------------------------------------------ specifications

Unlock == <<"u", "n", "l", "o", "c", "k">>

\* The TTS arbitration and the speech session manager: the microphone, the
\* recognizer's events, the wake phrase and a spoken or typed command that is
\* answered with a canned reply, and the playback of the replies.
NextAudio ==
  \/ \E ok \in BOOLEAN : MountPermission(ok)
  \/ \E ok \in BOOLEAN : HandlePress(ok)
  \/ RestartTimerFire
  \/ \E ok \in BOOLEAN : StartVoiceAfterDestroy(ok)
  \/ StartVoiceCatch
  \/ \E ok \in BOOLEAN : StartVoiceRetry(ok)
  \/ OnSpeechStart
  \/ \E t \in {NoText, HeyJarvis, Unlock} : OnSpeechPartialResults(t)
  \/ \E t \in {NoText, HeyJarvis, Unlock} : OnSpeechResults(t)
  \/ OnSpeechEnd
  \/ \E c \in BOOLEAN : OnSpeechError(c)
  \/ SpeakTimerFire
  \/ \E ev \in {"finish", "error"} : TtsUtteranceEnds(ev)
  \/ TtsEventDelivered
  \/ TapActivate
  \/ TypedQuestion(Unlock)

SpecAudio == Init /\ [][NextAudio]_vars

HelloThere == <<"h", "e", "l", "l", "o", " ", "t", "h", "e", "r", "e">>

\* Waking up: the microphone, the recognizer's events with and without the wake
\* phrase, the activate button and the greeting's playback; the camera is not
\* available, so a question asked after the wake stays pending.
NextWake ==
  \/ \E ok \in BOOLEAN : MountPermission(ok)
  \/ \E ok \in BOOLEAN : HandlePress(ok)
  \/ RestartTimerFire
  \/ \E ok \in BOOLEAN : StartVoiceAfterDestroy(ok)
  \/ StartVoiceCatch
  \/ \E ok \in BOOLEAN : StartVoiceRetry(ok)
  \/ OnSpeechStart
  \/ \E t \in {NoText, HeyJarvis, HelloThere} : OnSpeechPartialResults(t)
  \/ \E t \in {NoText, HeyJarvis, HelloThere} : OnSpeechResults(t)
  \/ OnSpeechEnd
  \/ \E c \in BOOLEAN : OnSpeechError(c)
  \/ SpeakTimerFire
  \/ \E ev \in {"finish", "error"} : TtsUtteranceEnds(ev)
  \/ TtsEventDelivered
  \/ TapActivate
  \/ CaptureTimerFire(FALSE)

SpecWake == Init /\ [][NextWake]_vars

Yes == <<"y", "e", "s">>
\* two screens of code, 25 characters each, with different signatures
OcrA == <<"f", "u", "n", "c", "t", "i", "o", "n", " ", "s", "u", "m", "(", "a", ",", "b", ")", " ", "{", " ", "a", "+", "b", " ", "}">>
OcrB == <<"f", "u", "n", "c", "t", "i", "o", "n", " ", "m", "u", "l", "(", "a", ",", "b", ")", " ", "{", " ", "a", "*", "b", " ", "}">>
\* screens cut off just below and at the hint's minimum length (the second one
\* ends with a space)
Ocr19 == SliceTo(OcrA, HINT_MIN_LEN - 1)
Ocr20 == SliceTo(OcrB, HINT_MIN_LEN)

\* The text stabilizer: the OCR loop reports text as time passes.
NextStab ==
  \/ \E t \in {NoText, OcrA, OcrB} : TextDetected(t, TRUE)
  \/ StableTimerFire
  \/ Tick(StabTickMs, StabMaxTime)

SpecStab == Init /\ [][NextStab]_vars

\* States the app is in once the user has woken it, an utterance has begun, the user has typed
\* "yes" to lock the screen OcrA (or not), has asked "what do you see" (or not), the
\* canned replies have been played, and the camera sees no text at the moment.
\* listening: the user toggled the microphone off in mid-utterance, which leaves
\* isListening and stopAudio set.  mic: the microphone is on and a recognition session is open.
InitAwake(md, locked, confirming, shown, listening, mic) ==
  /\ mode = md /\ status = "idle" /\ responseText = shown
  /\ audioUrl = FALSE /\ stopAudio = listening /\ errorMsg = ""
  /\ captureNow = FALSE /\ pendingQuestion = NoText /\ history = <<>>
  /\ lockedContext = locked /\ ttsPlaying = FALSE /\ detectedText = NoText
  /\ isListening = listening /\ stableTimer = NoTimer /\ stableText = NoText
  /\ confirmingText = confirming /\ pendingSpeak = FALSE /\ wakeWordFired = FALSE
  /\ lastAnalyzedKey = NoText /\ lastAnalyzedTime = 0
  /\ speakTimers = <<>> /\ inflight = <<>> /\ captureTimer = NoCapture
  /\ ttsEngine = 0 /\ ttsEvents = <<>>
  /\ activeRef = mic /\ pausedRef = FALSE /\ latestResult = NoText
  /\ restartTimer = 0 /\ sv = [d1 |-> 0, c |-> 0, d2 |-> 0, failed |-> FALSE]
  /\ mountPc = "done" /\ session = (IF mic THEN "ready" ELSE "none")
  /\ now = HINT_COOLDOWN_MS
  /\ uttWakes = 0 /\ uttMatched = FALSE /\ rawAt = 0 /\ lastHintAt = 0
  /\ answered = 0 /\ firedKeys = {}
  /\ restartTimeouts = 0 /\ restartReplaced = FALSE /\ heardPaused = FALSE

InitHint ==
  \/ InitAwake("sleeping", NoText, NoText, NoMsg, FALSE, FALSE)
  \/ InitAwake("active", NoText, NoText, Msg("greeting"), FALSE, FALSE)
  \/ \E l \in BOOLEAN : InitAwake("active", OcrA, NoText, Msg("got it"), l, FALSE)
  \/ InitAwake("confirming", OcrA, OcrA,
               [k |-> "i can see", p |-> SliceTo(Trim(CollapseSpaces(OcrA)), 160)],
               FALSE, FALSE)

\* The proactive hint watcher: the OCR loop reports text as time passes, the user
\* may press Unlock, hint requests stream, are answered (with backend audio) or fail.
NextHint ==
  \/ UnlockPress
  \/ \E t \in {NoText, OcrA, OcrB, Ocr19, Ocr20} : TextDetected(t, FALSE)
  \/ StableTimerFire
  \/ Tick(HintTickMs, HintMaxTime)
  \/ \E i \in 1..MaxInflight : StreamPartial(i, AnswerText)
  \/ \E i \in 1..MaxInflight : RequestResolved(i, AnswerText, TRUE)
  \/ \E i \in 1..MaxInflight : RequestRejected(i, "Network request failed")

SpecHint == InitHint /\ [][NextHint]_vars

FrameAnswer == <<"o", "k", "2">>

\* Question and answer: the screen OcrA is locked and the camera sees no text; the
\* user types questions (answered from the locked text, or from a camera frame once
\* the lock is released by the Unlock control), replies stream, arrive with
\* backend audio, or fail.
InitTurn == InitAwake("active", OcrA, NoText, Msg("got it"), FALSE, FALSE)

NextTurn ==
  \/ TypedQuestion(ExplainThis)
  \/ UnlockPress
  \/ \E ok \in BOOLEAN : CaptureTimerFire(ok)
  \/ \E i \in 1..MaxInflight : StreamPartial(i, AnswerText)
  \/ \E i \in 1..MaxInflight :
       RequestResolved(i, IF inflight[i].kind = "ask" THEN AnswerText ELSE FrameAnswer, TRUE)
  \/ \E i \in 1..MaxInflight, m \in {"Network request failed", Undefined} :
       RequestRejected(i, m)

SpecTurn == InitTurn /\ [][NextTurn]_vars

\* Spoken questions: the screen OcrA is locked, the microphone is on; the user
\* speaks or types questions about the locked screen while earlier ones are being
\* answered.
InitAsk == InitAwake("active", OcrA, NoText, Msg("got it"), FALSE, TRUE)

NextAsk ==
  \/ OnSpeechStart
  \/ OnSpeechPartialResults(ExplainThis)
  \/ OnSpeechResults(ExplainThis)
  \/ OnSpeechEnd
  \/ RestartTimerFire
  \/ StartVoiceAfterDestroy(TRUE)
  \/ TypedQuestion(ExplainThis)
  \/ \E i \in 1..MaxInflight : StreamPartial(i, AnswerText)
  \/ \E i \in 1..MaxInflight : RequestResolved(i, AnswerText, TRUE)
  \/ \E i \in 1..MaxInflight : RequestRejected(i, "Network request failed")

SpecAsk == InitAsk /\ [][NextAsk]_vars

\* ------------------------------------------------------------------ claims

\* a speech-recognition session is active: Voice.start was issued since the last
\* Voice.destroy
SessionActive == session # "none"

WhatDoYouSee == <<"w", "h", "a", "t", " ", "d", "o", " ", "y", "o", "u", " ", "s", "e", "e">>
No == <<"n", "o">>
\* the screen "function sum(a,b)", and screens too short to be described (14
\* characters) or to serve as a context (5 characters)
Ocr17 == SliceTo(OcrA, 17)
Ocr14 == SliceTo(OcrA, 14)
Ocr5 == SliceTo(OcrA, 5)
\* screens at and just above the length a spontaneous lock needs more than (10)
Ocr10 == SliceTo(OcrA, 10)
Ocr11 == SliceTo(OcrA, 11)

YesJarvis == <<"y", "e", "s", " ", "j", "a", "r", "v", "i", "s">>
NextPhrase == <<"n", "e", "x", "t">>

\* the transcripts the user submits in the dialogue
Transcripts == {WhatDoYouSee, Yes, No, ExplainThis, Unlock, NextPhrase, YesJarvis}

\* States the app is in once the user, awake and looking at the screen Ocr17, has
\* asked ExplainThis and been answered with backend audio, has then locked the
\* screen with "yes", has asked "what do you see" (or not), the canned replies
\* have been played, and the camera sees no text at the moment.
InitAnswered(md, confirming, shown) ==
  /\ mode = md /\ status = "idle" /\ responseText = shown
  /\ audioUrl = TRUE /\ stopAudio = FALSE /\ errorMsg = ""
  /\ captureNow = FALSE /\ pendingQuestion = NoText
  /\ history = << Entry("user", ExplainThis), Entry("assistant", AnswerText) >>
  /\ lockedContext = Ocr17 /\ ttsPlaying = FALSE /\ detectedText = NoText
  /\ isListening = FALSE /\ stableTimer = NoTimer /\ stableText = NoText
  /\ confirmingText = confirming /\ pendingSpeak = FALSE /\ wakeWordFired = FALSE
  /\ lastAnalyzedKey = NoText /\ lastAnalyzedTime = 0
  /\ speakTimers = <<>> /\ inflight = <<>> /\ captureTimer = NoCapture
  /\ ttsEngine = 0 /\ ttsEvents = <<>>
  /\ activeRef = FALSE /\ pausedRef = FALSE /\ latestResult = NoText
  /\ restartTimer = 0 /\ sv = [d1 |-> 0, c |-> 0, d2 |-> 0, failed |-> FALSE]
  /\ mountPc = "done" /\ session = "none"
  /\ now = HINT_COOLDOWN_MS
  /\ uttWakes = 0 /\ uttMatched = FALSE /\ rawAt = 0 /\ lastHintAt = 0
  /\ answered = 1 /\ firedKeys = {}
  /\ restartTimeouts = 0 /\ restartReplaced = FALSE /\ heardPaused = FALSE

\* the description describeAndConfirm displays for the screen Ocr17
SeenOcr17 == [k |-> "i can see", p |-> SliceTo(Trim(CollapseSpaces(Ocr17)), 160)]

\* The dialogue dispatcher: the app is awake, with or without a locked screen, a
\* screen to confirm and an earlier exchange; the OCR loop reports text, the user
\* submits transcripts (what do you see, yes, no, a question, unlock, next, one
\* naming the wake word) and presses Unlock, up to the dispatch of a question.  The
\* canned replies are queued and not yet played.
InitDialog ==
  \/ InitAwake("active", NoText, NoText, Msg("greeting"), FALSE, FALSE)
  \/ InitAwake("active", Ocr17, NoText, Msg("got it"), FALSE, FALSE)
  \/ InitAwake("confirming", NoText, Ocr17, SeenOcr17, FALSE, FALSE)
  \/ InitAnswered("active", NoText, Msg("got it"))
  \/ InitAnswered("confirming", Ocr17, SeenOcr17)

NextDialog ==
  \/ \E q \in Transcripts : TypedQuestion(q)
  \/ UnlockPress
  \/ \E t \in {NoText, Ocr5, Ocr14, Ocr17} : TextDetected(t, FALSE)

SpecDialog == InitDialog /\ [][NextDialog]_vars

\* the transcripts the user submits around a lock
LockTranscripts == {Yes, HeyJarvis, YesJarvis, WhatDoYouSee, ExplainThis}

\* Waking and locking: the app is asleep (the microphone was refused), awake with
\* nothing locked, or awake with the screen OcrA locked and an utterance cut off
\* by the microphone toggle; the OCR loop reports text, the user taps Activate,
\* submits transcripts (yes, the wake phrase, what do you see, a question) and
\* presses Unlock.  The canned replies are queued and not yet played.
InitLock ==
  \/ InitAwake("sleeping", NoText, NoText, NoMsg, FALSE, FALSE)
  \/ InitAwake("active", NoText, NoText, Msg("greeting"), FALSE, FALSE)
  \/ InitAwake("active", OcrA, NoText, Msg("got it"), TRUE, FALSE)

NextLock ==
  \/ \E q \in LockTranscripts : TypedQuestion(q)
  \/ TapActivate
  \/ UnlockPress
  \/ \E t \in {NoText, Ocr10, Ocr11, Ocr17} : TextDetected(t, FALSE)

SpecLock == InitLock /\ [][NextLock]_vars

\* longer sentences that begin with or contain a vocabulary token
NoIdeaWhy == <<"n", "o", " ", "i", "d", "e", "a", " ", "w", "h", "y">>
RightShift == <<"r", "i", "g", "h", "t", " ", "s", "h", "i", "f", "t">>
WhoIsJarvis == <<"w", "h", "o", " ", "i", "s", " ", "j", "a", "r", "v", "i", "s">>

\* the short phrases and the longer sentences the user submits
Sentences == {No, Yes, HeyJarvis, NoIdeaWhy, RightShift, WhoIsJarvis}

\* Phrase classification: in the states of the dialogue, the OCR loop reports
\* text and the user submits short vocabulary phrases and longer sentences.
NextPhrases ==
  \/ \E q \in Sentences : TypedQuestion(q)
  \/ \E t \in {NoText, Ocr17} : TextDetected(t, FALSE)

SpecPhrases == InitDialog /\ [][NextPhrases]_vars

\* Failing text-to-speech: from launch, the microphone is granted or refused, the
\* user taps Activate and types "unlock"; every utterance handed to the TTS
\* collaborator ends with an error; the recognizer is restarted after a resume.
NextTtsFail ==
  \/ \E ok \in BOOLEAN : MountPermission(ok)
  \/ TapActivate
  \/ TypedQuestion(Unlock)
  \/ SpeakTimerFire
  \/ TtsUtteranceEnds("error")
  \/ TtsEventDelivered
  \/ RestartTimerFire
  \/ StartVoiceAfterDestroy(TRUE)

SpecTtsFail == Init /\ [][NextTtsFail]_vars

\* C1: in every reachable state, while ttsPlaying is true no speech-recognition
\* session is active.
C1_TtsExcludesSession == ttsPlaying => ~SessionActive

\* the recognizer reports that the user started speaking
SpeechStartEvent == session = "ready" /\ session' = "hearing"

\* C8: a speech-start event received while a reply is playing (ttsPlaying true) is
\* a barge-in: playback is stopped and the system switches to listening.
C8_BargeInWhilePlaying ==
  [][(SpeechStartEvent /\ ttsPlaying /\ ttsEngine > 0)
       => (ttsEngine' = 0 /\ isListening')]_vars

\* the greeting is the reply just handed to speakText
GreetingQueued == speakTimers = <<Msg("greeting")>> /\ responseText = Msg("greeting")

SpeechEndEvent == session = "results" /\ session' = "ended"

\* C3: a final transcript that matches the wake vocabulary, delivered while mode is
\* sleeping, performs the wake transition whatever the one-shot guard holds.
C3_FinalTranscriptWakes ==
  [][(SpeechEndEvent /\ mode = "sleeping" /\ isWakeWord(Trim(latestResult)))
       => (mode' = "active" /\ history' = <<>>
           /\ speakTimers' = Append(speakTimers, Msg("greeting")))]_vars

\* C3 witness: the wake was performed by the final transcript (the partial path
\* would have left the one-shot guard set)
C3_Witness ==
  uttMatched /\ uttWakes = 1 /\ ~wakeWordFired /\ mode = "active" /\ GreetingQueued

\* a partial transcript matching the wake vocabulary arrives while sleeping
WakePartialEvent ==
  session = "hearing" /\ mode = "sleeping" /\ ~uttMatched /\ uttMatched'

\* C4: a matching partial transcript received while sleeping sets mode to active,
\* empties the history and hands the greeting to speakText.
C4_PartialWakes ==
  [][WakePartialEvent
       => (mode' = "active" /\ history' = <<>>
           /\ responseText' = Msg("greeting")
           /\ speakTimers' = Append(speakTimers, Msg("greeting"))
           /\ ttsPlaying')]_vars

\* C4 witness: the wake was performed by a partial transcript
C4_Witness == uttMatched /\ wakeWordFired /\ mode = "active" /\ GreetingQueued

\* C5: under every sequence of raw OCR updates, StableText takes a non-empty value
\* only when that value is the raw text and the raw signal has had no update for
\* the whole debounce window (1500 ms); an empty raw update leaves StableText empty
\* and no publication pending in the same step, so while the raw text is empty
\* nothing is published.
C5_DebouncedPublication ==
  [][/\ (detectedText' = NoText => (stableText' = NoText /\ ~stableTimer'.set))
     /\ ((stableText' # stableText /\ stableText' # NoText)
           => /\ detectedText = stableText'
              /\ detectedText' = detectedText
              /\ rawAt' = rawAt
              /\ now - rawAt >= STABLE_DELAY_MS)]_vars

\* a value was superseded by another one, which was then published
C5_Witness ==
  /\ stableText = OcrB /\ detectedText = OcrB
  /\ rawAt > HINT_COOLDOWN_MS /\ now - rawAt >= STABLE_DELAY_MS

\* C10: a proactive hint is requested only when at least the cooldown (10 s) has
\* passed since the previous hint request, and the step that requests it sets the
\* last firing time to the current time and the last key to the key of the
\* stabilized text.
C10_HintCooldown ==
  [][HintRequested(inflight, inflight')
       => /\ now' - lastHintAt >= HINT_COOLDOWN_MS
          /\ lastAnalyzedTime' = now'
          /\ lastAnalyzedKey' = SliceTo(Trim(stableText'), HINT_KEY_LEN)]_vars

\* a second hint is in flight after the first one was answered
C10_Witness ==
  /\ Len(history) >= 2 /\ history[1].content = HINT_QUESTION
  /\ inflight # <<>> /\ inflight[Len(inflight)].q = HINT_QUESTION
  /\ lastHintAt >= 2 * HINT_COOLDOWN_MS

\* C6: the history never holds more than 10 entries; an answered exchange (text
\* path or camera path, completing in any order) is appended as a user/assistant
\* pair, and when the history is full the two oldest entries are dropped and the
\* others keep their order.
C6_HistoryFifo ==
  /\ [](Len(history) <= HISTORY_MAX)
  /\ [][\A i \in 1..Len(inflight), a \in {AnswerText, FrameAnswer}, u \in BOOLEAN :
          RequestResolved(i, a, u)
            => LET pair == << Entry("user", inflight[i].q), Entry("assistant", a) >>
               IN  history' = IF Len(history) = HISTORY_MAX
                              THEN SubSeq(history, 3, HISTORY_MAX) \o pair
                              ELSE history \o pair]_vars

\* a sixth exchange was appended to a full history holding both kinds of answer
C6_Witness ==
  /\ answered > HISTORY_MAX \div 2 /\ Len(history) = HISTORY_MAX
  /\ history[2].content = AnswerText /\ history[HISTORY_MAX].content = FrameAnswer

\* C7: when an inference request fails, status becomes error with the failure's
\* message, the history is unchanged, nothing is handed to speech, no audio is set
\* and pendingQuestion is cleared; dispatching a request does not touch the
\* history either.
C7_FailureRecordsNothing ==
  [][/\ \A i \in 1..Len(inflight), m \in {"Network request failed", Undefined} :
          RequestRejected(i, m)
            => /\ status' = "error"
               /\ errorMsg' = (IF m = Undefined THEN "Request failed" ELSE m)
               /\ history' = history
               /\ speakTimers' = speakTimers /\ ttsEngine' = ttsEngine
               /\ ttsPlaying' = ttsPlaying /\ audioUrl' = audioUrl
               /\ pendingQuestion' = NoText
     /\ Len(inflight') > Len(inflight) => history' = history]_vars

\* a request failed after an earlier exchange had been answered
C7_Witness ==
  /\ status = "error" /\ errorMsg = "Network request failed"
  /\ history # <<>> /\ pendingQuestion = NoText /\ inflight = <<>>

\* C9: a request is dispatched to the inference collaborator only while status is
\* not thinking.
C9_NoDispatchWhileThinking ==
  [][Len(inflight') > Len(inflight) => status # "thinking"]_vars

\* C11: no two hint requests carry the same content key: a hint is requested only
\* for a key that no earlier hint request carried.
C11_NoKeyTwice ==
  [][HintRequested(inflight, inflight') => lastAnalyzedKey' \notin firedKeys]_vars

\* the state in which the hint effect may fire, but for the key and the cooldown
HintGate ==
  /\ lockedContext # NoText /\ mode = "active" /\ ~isListening
  /\ status # "thinking"

\* C12: with a context locked, mode active, no speech being captured and status
\* not thinking, a change of the stabilized text to a text of at least the minimum
\* length whose key differs from the last fired key, at least the cooldown after
\* the last hint, requests a hint whose context carries the locked context and the
\* new stabilized text.
C12_ChangedTextTriggersHint ==
  [][(/\ HintGate
      /\ stableText' # stableText /\ Len(stableText') >= HINT_MIN_LEN
      /\ SliceTo(Trim(stableText'), HINT_KEY_LEN) # lastAnalyzedKey
      /\ now - lastAnalyzedTime >= HINT_COOLDOWN_MS)
       => /\ HintRequested(inflight, inflight')
          /\ Includes(inflight'[Len(inflight')].ctx, SliceTo(lockedContext, 300))
          /\ Includes(inflight'[Len(inflight')].ctx, SliceTo(stableText', 800))]_vars

\* a second hint, for a changed screen, is in flight with the locked screen OcrA
\* and the new screen OcrB in its context
C12_Witness ==
  /\ Cardinality(firedKeys) = 2 /\ inflight # <<>>
  /\ inflight[Len(inflight)].q = HINT_QUESTION
  /\ Includes(inflight[Len(inflight)].ctx, OcrA)
  /\ Includes(inflight[Len(inflight)].ctx, OcrB)

\* C13: a hint is requested only with a context locked, mode active, isListening
\* false, status not thinking and a stabilized text of at least 20 characters; a
\* change of the stabilized text in any other state requests nothing and leaves
\* the last key and the last firing time unchanged.
C13_HintOnlyWhenGated ==
  [][/\ HintRequested(inflight, inflight')
          => (HintGate /\ Len(stableText') >= HINT_MIN_LEN)
     /\ (stableText' # stableText /\ ~(HintGate /\ Len(stableText') >= HINT_MIN_LEN))
          => /\ inflight' = inflight
             /\ lastAnalyzedKey' = lastAnalyzedKey
             /\ lastAnalyzedTime' = lastAnalyzedTime]_vars

\* a screen stabilized while the user was being heard and no hint was requested
C13_Witness ==
  /\ Len(stableText) >= HINT_MIN_LEN /\ isListening
  /\ lockedContext # NoText /\ mode = "active" /\ status = "idle"
  /\ inflight = <<>> /\ firedKeys = {} /\ lastAnalyzedTime = 0

\* a step that hands one more text to speakText and sends nothing to inference
\* or to the camera
SpokenOnly(k) ==
  /\ Len(speakTimers') = Len(speakTimers) + 1
  /\ speakTimers'[Len(speakTimers')].k = k
  /\ responseText' = speakTimers'[Len(speakTimers')]
  /\ inflight' = inflight /\ captureNow' = captureNow /\ captureTimer' = captureTimer

\* a step that dispatches question q with context ctx to the text inference path
Asked(q, ctx) ==
  /\ inflight' = Append(inflight, [kind |-> "ask", q |-> q, ctx |-> ctx])
  /\ captureNow' = captureNow

\* C14: in mode active, a transcript of the "what do you see" family (no wake
\* word in it) with a live OCR text of at least 15 characters sets mode
\* confirming and the pending confirmation to the live text, speaks a description
\* and issues no inference request.
C14_WhatDoYouSeeConfirms ==
  [][\A q \in Transcripts :
       (/\ mode = "active"
        /\ ~isWakeWord(q) /\ isWhatDoYouSee(q) /\ Len(detectedText) >= 15 /\ TypedQuestion(q))
         => /\ mode' = "confirming" /\ confirmingText' = detectedText
            /\ SpokenOnly("i can see")
            /\ lockedContext' = lockedContext]_vars

\* the screen "function sum(a,b)" is being confirmed
C14_Witness ==
  /\ mode = "confirming" /\ confirmingText = Ocr17 /\ detectedText = Ocr17
  /\ speakTimers # <<>> /\ speakTimers[Len(speakTimers)] = SeenOcr17
  /\ inflight = <<>>

\* C15: in mode confirming, a lock-affirmation transcript (no wake word in it)
\* sets the locked context to the pending confirmation text, mode to active,
\* clears the pending confirmation and issues no inference request.
C15_YesLocksPending ==
  [][\A q \in Transcripts :
       (/\ mode = "confirming"
        /\ ~isWakeWord(q) /\ isLockPhrase(q) /\ TypedQuestion(q))
         => /\ lockedContext' = confirmingText /\ mode' = "active"
            /\ confirmingText' = NoText
            /\ SpokenOnly("locked")]_vars

\* the confirmed screen is locked while the camera shows another one
C15_Witness ==
  /\ mode = "active" /\ lockedContext = Ocr17 /\ confirmingText = NoText
  /\ responseText = Msg("locked") /\ detectedText = Ocr14

\* C16: in mode confirming, a negation transcript (no wake word in it) clears the
\* pending confirmation and sets mode to active; the locked context and the
\* history are unchanged and no inference request is issued.
C16_NoDiscardsPending ==
  [][\A q \in Transcripts :
       (/\ mode = "confirming"
        /\ ~isWakeWord(q) /\ isNoPhrase(q) /\ TypedQuestion(q))
         => /\ confirmingText' = NoText /\ mode' = "active"
            /\ lockedContext' = lockedContext /\ history' = history
            /\ SpokenOnly("ok navigate")]_vars

\* a confirmation was declined with a screen locked and an exchange in the history
C16_Witness ==
  /\ mode = "active" /\ responseText = Msg("ok navigate") /\ confirmingText = NoText
  /\ lockedContext = Ocr17 /\ history # <<>>

\* C17: in mode confirming, a transcript that is neither a wake phrase, a lock
\* affirmation nor a negation is dispatched as a question with the pending
\* confirmation text as context (the live OCR text when the pending text is
\* empty); mode becomes active and the pending confirmation is cleared.
C17_QuestionWhileConfirming ==
  [][\A q \in Transcripts :
       (/\ mode = "confirming"
        /\ ~isWakeWord(q) /\ ~isLockPhrase(q) /\ ~isNoPhrase(q) /\ TypedQuestion(q))
         => /\ Asked(q, IF confirmingText # NoText THEN confirmingText ELSE detectedText)
            /\ mode' = "active" /\ confirmingText' = NoText]_vars

\* a regular question in mode active: no wake word, not of the "what do you
\* see" family, no unlock phrase, no spontaneous lock
RegularQuestion(q) ==
  /\ ~isWakeWord(q) /\ ~isWhatDoYouSee(q) /\ ~isUnlockPhrase(q)
  /\ ~(isLockPhrase(q) /\ lockedContext = NoText /\ Len(detectedText) > 10)

\* C18: in mode active with a locked context, a regular question is dispatched
\* with the locked context as its context, whatever the live text is.
C18_LockedContextAnswers ==
  [][\A q \in Transcripts :
       (/\ mode = "active" /\ lockedContext # NoText
        /\ RegularQuestion(q) /\ TypedQuestion(q))
         => /\ Asked(q, lockedContext)
            /\ pendingQuestion' = q /\ lockedContext' = lockedContext]_vars

\* a question is in flight with the locked screen while the camera shows another
C18_Witness ==
  /\ inflight # <<>> /\ inflight[Len(inflight)].q = ExplainThis
  /\ inflight[Len(inflight)].ctx = Ocr17 /\ lockedContext = Ocr17
  /\ detectedText = Ocr14 /\ status = "thinking"

\* C19: in mode active with no locked context and a live text of at most 5
\* characters, a regular question is stored as pendingQuestion, a camera capture
\* is requested and no text inference request is issued.
C19_NoContextCaptures ==
  [][\A q \in Transcripts :
       (/\ mode = "active" /\ lockedContext = NoText
        /\ Len(detectedText) <= 5 /\ RegularQuestion(q) /\ TypedQuestion(q))
         => /\ pendingQuestion' = q /\ captureNow'
            /\ (~captureNow => captureTimer' = [set |-> TRUE, q |-> q])
            /\ inflight' = inflight /\ speakTimers' = speakTimers]_vars

\* a capture is pending for a question asked over a 5-character screen
C19_Witness ==
  /\ captureNow /\ captureTimer = [set |-> TRUE, q |-> ExplainThis]
  /\ pendingQuestion = ExplainThis /\ detectedText = Ocr5
  /\ lockedContext = NoText /\ inflight = <<>>

\* C20: in mode active, an unlock phrase (no wake word in it) clears the locked
\* context and the pending confirmation, keeps mode active, speaks a canned reply
\* and issues no inference request; the Unlock control clears the locked context.
C20_UnlockClears ==
  [][/\ \A q \in Transcripts :
          (/\ mode = "active"
           /\ ~isWakeWord(q) /\ ~isWhatDoYouSee(q) /\ isUnlockPhrase(q) /\ TypedQuestion(q))
            => /\ lockedContext' = NoText /\ confirmingText' = NoText
               /\ mode' = "active"
               /\ SpokenOnly("unlocked")
     /\ UnlockPress => (lockedContext' = NoText /\ inflight' = inflight)]_vars

\* a locked screen was released by an unlock phrase after an exchange
C20_Witness ==
  /\ mode = "active" /\ responseText = Msg("unlocked") /\ lockedContext = NoText
  /\ history # <<>> /\ speakTimers # <<>>

\* C21: in mode active, an affirmation phrase (no wake word in it) heard while
\* nothing is locked and the live text is longer than 10 characters locks the live
\* text: the locked context becomes the live text, mode stays active and no
\* inference request is issued; with a context already locked the phrase leaves
\* the locked context as it is.
C21_SpontaneousLock ==
  [][\A q \in LockTranscripts :
       (/\ mode = "active"
        /\ ~isWakeWord(q) /\ ~isWhatDoYouSee(q) /\ ~isUnlockPhrase(q)
        /\ isLockPhrase(q) /\ TypedQuestion(q))
         => IF lockedContext = NoText /\ Len(detectedText) > 10
            THEN /\ lockedContext' = detectedText /\ mode' = "active"
                 /\ SpokenOnly("got it")
            ELSE lockedContext' = lockedContext]_vars

\* an 11-character screen was locked by a spontaneous "yes"
C21_Witness ==
  /\ mode = "active" /\ lockedContext = Ocr11 /\ responseText = Msg("got it")
  /\ speakTimers # <<>> /\ inflight = <<>> /\ confirmingText = NoText

\* C22: a final transcript matching the wake vocabulary, received while mode is
\* active or confirming, is ignored: mode, locked context, pending confirmation,
\* history, turn status and the displayed reply are unchanged, nothing is handed
\* to speech and no inference or capture request is issued.
C22_WakeWhileAwakeIgnored ==
  [][\A q \in LockTranscripts :
       (/\ mode \in {"active", "confirming"}
        /\ isWakeWord(q) /\ TypedQuestion(q))
         => /\ mode' = mode /\ lockedContext' = lockedContext
            /\ confirmingText' = confirmingText /\ history' = history
            /\ status' = status /\ responseText' = responseText
            /\ speakTimers' = speakTimers /\ ttsEngine' = ttsEngine
            /\ ttsPlaying' = ttsPlaying /\ pausedRef' = pausedRef
            /\ inflight' = inflight /\ pendingQuestion' = pendingQuestion
            /\ captureNow' = captureNow /\ captureTimer' = captureTimer]_vars

\* a wake phrase was submitted with the screen OcrA locked: of what the utterance
\* cut off by the microphone toggle left behind, only stopAudio was reset
C22_Witness ==
  /\ mode = "active" /\ lockedContext = OcrA /\ isListening /\ ~stopAudio
  /\ responseText = Msg("got it") /\ speakTimers = <<>> /\ inflight = <<>>
  /\ ~captureNow /\ pendingQuestion = NoText /\ history = <<>>

\* C23 as stated: the pending confirmation text is non-empty exactly while mode
\* is confirming.
C23_PendingIffConfirming == (mode = "confirming") <=> (confirmingText # NoText)

\* C23, amended: the pending confirmation text is empty whenever mode is not
\* confirming; entering confirming sets it to a non-empty text; and while mode
\* stays confirming it changes only by the Unlock control, which empties it.
C23_PendingLifecycle ==
  /\ [](mode # "confirming" => confirmingText = NoText)
  /\ [][(mode # "confirming" /\ mode' = "confirming")
          => (confirmingText' # NoText /\ confirmingText' = detectedText)]_vars
  /\ [][(mode = "confirming" /\ mode' = "confirming"
         /\ confirmingText' # confirmingText)
          => (confirmingText' = NoText /\ UnlockPress)]_vars

\* the Unlock control was pressed while a screen was being confirmed
C23_Witness ==
  /\ mode = "confirming" /\ confirmingText = NoText /\ lockedContext = NoText
  /\ responseText = SeenOcr17

\* C24: in every reachable state the locked context is non-empty only while mode
\* is not sleeping.
C24_LockedOnlyAwake == lockedContext # NoText => mode # "sleeping"

\* the app was woken from sleep and an 11-character screen was then locked
C24_Witness ==
  /\ uttWakes = 1 /\ mode = "active" /\ lockedContext = Ocr11 /\ history = <<>>

\* C27: in mode active, a transcript of the "what do you see" family (no wake
\* word in it) with a live OCR text of fewer than 15 characters speaks the fixed
\* retry prompt; mode stays active, the pending confirmation, the locked context,
\* the history and the turn status are unchanged and no inference request is
\* issued.
C27_NothingToDescribe ==
  [][\A q \in Transcripts :
       (/\ mode = "active"
        /\ ~isWakeWord(q) /\ isWhatDoYouSee(q) /\ Len(detectedText) < 15
        /\ TypedQuestion(q))
         => /\ mode' = "active" /\ confirmingText' = confirmingText
            /\ lockedContext' = lockedContext /\ history' = history
            /\ status' = status
            /\ SpokenOnly("cant see")]_vars

\* the retry prompt was spoken over a 14-character screen with a screen locked
C27_Witness ==
  /\ mode = "active" /\ responseText = Msg("cant see") /\ detectedText = Ocr14
  /\ lockedContext = Ocr17 /\ confirmingText = NoText
  /\ speakTimers # <<>> /\ inflight = <<>>

\* C25: the audio feedback guard is armed when playback of a reply starts: when
\* speakText's delayed callback issues Tts.speak, and when a reply arrives with
\* backend audio (which the reply display plays at once), speech input is marked
\* paused.
C25_GuardArmedBeforePlayback ==
  [][/\ SpeakTimerFire => (pausedRef /\ pausedRef')
     /\ \A i \in 1..Len(inflight), a \in {AnswerText, FrameAnswer} :
          RequestResolved(i, a, TRUE) => pausedRef']_vars

\* C26: when the TTS collaborator reports an error for a reply, ttsPlaying
\* becomes false and speech input is resumed as for a normal finish (unpaused,
\* with the restart scheduled after the resume delay when the microphone is on);
\* mode, locked context, history, turn status and the displayed reply are
\* unchanged.
C26_TtsErrorResumes ==
  [][\A ev \in {"error", "finish"} :
       (ttsEvents # <<>> /\ Head(ttsEvents) = ev /\ TtsEventDelivered)
         => /\ ~ttsPlaying' /\ ~pausedRef'
            /\ restartTimer' = (IF activeRef THEN RESUME_DELAY_MS ELSE restartTimer)
            /\ mode' = mode /\ lockedContext' = lockedContext /\ history' = history
            /\ status' = status /\ responseText' = responseText
            /\ speakTimers' = speakTimers]_vars

\* the greeting's utterance failed: the greeting is still displayed, nothing is
\* playing and the recognizer's restart is scheduled
C26_Witness ==
  /\ mode = "active" /\ responseText = Msg("greeting")
  /\ ~ttsPlaying /\ ~pausedRef /\ ttsEngine = 0 /\ ttsEvents = <<>>
  /\ speakTimers = <<>> /\ activeRef /\ restartTimer = RESUME_DELAY_MS

\* C28: a speech-recognition error changes neither the turn status nor what is
\* displayed and schedules a restart; when Voice.start is rejected again in
\* startVoice's retry, turn status becomes error with a message.
C28_SpeechErrorRecovery ==
  [][/\ \A c \in BOOLEAN :
          OnSpeechError(c)
            => /\ status' = status /\ errorMsg' = errorMsg /\ mode' = mode
               /\ responseText' = responseText
               /\ (~pausedRef => restartTimer' =
                                   (IF c THEN ERROR5_RESTART_MS ELSE ERROR_RESTART_MS))
     /\ StartVoiceRetry(FALSE) => (status' = "error" /\ errorMsg' # "")]_vars

\* C30: a cancel event caused by speakText's own Tts.stop() neither clears
\* ttsPlaying nor resumes speech input, whenever it is delivered; a cancel event
\* of another origin delivered with the suppression flag clear does both.
C30_OwnStopNotAnEnd ==
  [][/\ (ttsEvents # <<>> /\ Head(ttsEvents) = CancelBySpeakText /\ TtsEventDelivered)
          => /\ ttsPlaying' = ttsPlaying /\ pausedRef' = pausedRef
             /\ restartTimer' = restartTimer
     /\ (ttsEvents # <<>> /\ Head(ttsEvents) = "cancel" /\ ~pendingSpeak
         /\ TtsEventDelivered)
          => (~ttsPlaying' /\ ~pausedRef')]_vars

\* the negation phrases isNoPhrase compares with (===)
NO_PHRASES ==
  { <<"n", "o">>, <<"n", "o", "p", "e">>, <<"n", "a", "h">>, <<"s", "k", "i", "p">>,
    <<"n", "o", "t", " ", "t", "h", "a", "t">>,
    <<"s", "o", "m", "e", "t", "h", "i", "n", "g", " ", "e", "l", "s", "e">>,
    <<"n", "e", "x", "t">> }

\* the wake phrases: the phrases isWakeWord compares with (===), and the names it
\* searches for, alone or after "hey"
WAKE_PHRASES ==
  { <<"h", "e", "y">>, <<"a", "c", "t", "i", "v", "a", "t", "e">>,
    <<"w", "a", "k", "e", " ", "u", "p">>,
    <<"j", "a", "r", "v", "i", "s">>, <<"t", "r", "a", "v", "i", "s">>,
    <<"h", "e", "y", " ", "j", "a", "r", "v", "i", "s">>,
    <<"h", "e", "y", " ", "t", "r", "a", "v", "i", "s">> }

\* C29: a submitted transcript is classified as a negation, a lock affirmation or
\* a wake phrase only when, lower-cased and trimmed, it is one of the short
\* vocabulary phrases itself.
C29_ClassificationAnchored ==
  [][\A q \in Sentences :
       TypedQuestion(q)
         => LET lower == Trim(ToLower(q))
            IN  /\ isNoPhrase(q) => lower \in NO_PHRASES
                /\ isLockPhrase(q) => lower \in LOCK_PHRASES
                /\ isWakeWord(q) => lower \in WAKE_PHRASES]_vars

\* C31: no Voice.start is issued while input is paused (pausedRef true), also when
\* pauseForTts ran while startVoice was suspended awaiting Voice.destroy().
C31_NoStartWhilePaused ==
  [][(sv.d1 + sv.d2 > 0 /\ (StartVoiceAfterDestroy(TRUE) \/ StartVoiceRetry(TRUE)))
       => ~pausedRef]_vars

\* C34: under any interleaving of startVoice invocations (auto-start, restart
\* timer, button press) every Voice.start is issued while no session is active.
C34_StartOnlyWithoutSession ==
  [][(sv.d1 + sv.d2 > 0 /\ (StartVoiceAfterDestroy(TRUE) \/ StartVoiceRetry(TRUE)))
       => ~SessionActive]_vars

\* The restart policy of the speech session manager: the microphone and its
\* toggle, the restart timer, startVoice with its retry, the recognizer's events
\* of utterances with and without the wake phrase, and the greeting's playback
\* with its pause and resume.
NextRestart ==
  \/ MountPermission(TRUE)
  \/ \E ok \in BOOLEAN : HandlePress(ok)
  \/ RestartTimerFire
  \/ \E ok \in BOOLEAN : StartVoiceAfterDestroy(ok)
  \/ StartVoiceCatch
  \/ \E ok \in BOOLEAN : StartVoiceRetry(ok)
  \/ OnSpeechStart
  \/ \E t \in {NoText, HeyJarvis} : OnSpeechResults(t)
  \/ OnSpeechEnd
  \/ \E c \in BOOLEAN : OnSpeechError(c)
  \/ TapActivate
  \/ SpeakTimerFire
  \/ \E ev \in {"finish", "error"} : TtsUtteranceEnds(ev)
  \/ TtsEventDelivered

SpecRestart == Init /\ [][NextRestart]_vars

\* C32: at most one restart timeout is pending at any time, and it is the one the
\* timer reference holds: scheduling a restart clears the previous timeout, so
\* a superseded timeout is never left to fire.
C32_OneRestartTimer ==
  /\ restartTimeouts <= 1
  /\ restartTimeouts = (IF restartTimer # 0 THEN 1 ELSE 0)

\* a restart was scheduled while another was pending, and one timeout is left
C32_Witness == restartReplaced /\ restartTimer # 0 /\ restartTimeouts = 1

\* Scheduling of the event loop and of the platform: a pending timeout fires, an
\* awaited Voice promise settles, an utterance being played ends, and an emitted
\* TTS event reaches its listener.
FairRestart ==
  /\ WF_vars(RestartTimerFire)
  /\ WF_vars(\E ok \in BOOLEAN : StartVoiceAfterDestroy(ok))
  /\ WF_vars(StartVoiceCatch)
  /\ WF_vars(\E ok \in BOOLEAN : StartVoiceRetry(ok))
  /\ WF_vars(SpeakTimerFire)
  /\ WF_vars(\E ev \in {"finish", "error"} : TtsUtteranceEnds(ev))
  /\ WF_vars(TtsEventDelivered)

SpecRestartFair == Init /\ [][NextRestart]_vars /\ FairRestart

\* a restart is pending with the microphone on and input not paused
RestartScheduled == restartTimer # 0 /\ activeRef /\ ~pausedRef

\* the microphone is on and input is not paused, but no session exists, no
\* restart is pending and no startVoice is under way: both Voice.start attempts
\* of startVoice were rejected
RecognitionOff ==
  /\ activeRef /\ ~pausedRef /\ session = "none" /\ restartTimer = 0
  /\ sv.failed /\ sv.d1 = 0 /\ sv.c = 0 /\ sv.d2 = 0

\* the restart delays of onSpeechEnd and onSpeechError
RestartDelays ==
  [][/\ (~pausedRef /\ OnSpeechEnd) => restartTimer' = END_RESTART_MS
     /\ \A c \in BOOLEAN :
          (~pausedRef /\ OnSpeechError(c))
            => restartTimer' = (IF c THEN ERROR5_RESTART_MS ELSE ERROR_RESTART_MS)]_vars

C35_NeverSleepsAgain ==
  [][/\ mode # "sleeping" => mode' # "sleeping"
     /\ (uttWakes' > uttWakes \/ (history # <<>> /\ history' = <<>>))
          => (mode = "sleeping" /\ mode' = "active")]_vars

\* the app is awake, the greeting has been played, and an utterance that began
\* after the wake has ended without another wake
C35_Witness ==
  /\ mode = "active" /\ uttWakes = 0 /\ session = "ended"
  /\ ~ttsPlaying /\ ttsEngine = 0 /\ speakTimers = <<>>

\* C36: the history always consists of complete exchanges: its length is even and
\* its entries alternate user, assistant, starting with user, also after the
\* truncation to ten entries and when requests overlap.
C36_CompleteExchanges ==
  /\ Len(history) % 2 = 0
  /\ \A i \in 1..Len(history) :
       history[i].role = (IF i % 2 = 1 THEN "user" ELSE "assistant")

\* the history was truncated by an exchange that completed while another request
\* was in flight
C36_Witness ==
  /\ Len(history) = HISTORY_MAX /\ answered > HISTORY_MAX \div 2
  /\ Len(inflight) = 1 /\ status = "idle"

\* C37: status is thinking for the whole time an inference request is in flight:
\* from its dispatch until its final value or its failure arrives, also while
\* partial chunks are delivered.
C37_ThinkingWhileInFlight == inflight # <<>> => status = "thinking"

\* an inference request in flight is answered or fails
RequestSettles ==
  \/ \E i \in 1..MaxInflight :
       RequestResolved(i, IF inflight[i].kind = "ask" THEN AnswerText ELSE FrameAnswer, TRUE)
  \/ \E i \in 1..MaxInflight, m \in {"Network request failed", Undefined} :
       RequestRejected(i, m)

\* Scheduling of the event loop and of the backend: the capture effect's
\* stabilisation timeout fires, and a request in flight settles.
SpecTurnFair ==
  /\ InitTurn /\ [][NextTurn]_vars
  /\ WF_vars(\E ok \in BOOLEAN : CaptureTimerFire(ok))
  /\ WF_vars(RequestSettles)

\* handleVoiceResult has dispatched captureAndAnswer: the question is pending and
\* the capture is requested
CaptureRequested == captureNow /\ pendingQuestion # NoText

\* C38: every captureAndAnswer dispatch eventually completes: the status is that
\* of a reply or error, the pending question is cleared and the capture request
\* is reset, also when the photo capture fails or the camera is unavailable.
C38_CaptureCompletes ==
  CaptureRequested
    ~> (~captureNow /\ pendingQuestion = NoText /\ status \in {"idle", "error"})

\* C39: text recognized while input was paused is never delivered as a
\* transcript, even later: no final transcript handed to onResult is text that
\* was stored while pausedRef was set.
C39_NoPausedTranscript ==
  [][(SpeechEndEvent /\ ~pausedRef /\ Trim(latestResult) # NoText /\ OnSpeechEnd)
       => ~heardPaused]_vars

\* listening has resumed: no reply is playing, input is not paused and a session
\* has been started
ListeningResumed == ~ttsPlaying /\ ~pausedRef /\ session = "ready"

================================================================================
